---- MODULE Spec2Model ----
(***************************************************************************)
(* Model of the temporian operators Combine, Where and Cast:               *)
(*   core/operators/combine.py, core/operators/where.py,                   *)
(*   implementation/numpy/operators/where.py and .../cast.py.              *)
(* A caller is idle, calls one function or constructor (one action per     *)
(* handler, run to completion) and then observes the outcome.              *)
(***************************************************************************)
EXTENDS Integers, Sequences, FiniteSets, TLC

VARIABLES pc, call, op, ret

vars == <<pc, call, op, ret>>

(***************************************************************************)
(* Bounds of the model.                                                    *)
(***************************************************************************)
\* Largest number of arguments of a combine call that is explored.
MaxArgs == 31
\* Number of leading arguments that are chosen freely; the remaining
\* arguments repeat the last freely chosen one.
MaxVaried == 2

(***************************************************************************)
(* Generic helpers: Python dicts are functions, lists are sequences.       *)
(***************************************************************************)
EmptyDict == <<>>

Put(d, k, v) == [x \in (DOMAIN d) \cup {k} |-> IF x = k THEN v ELSE d[x]]

Range(s) == {s[i] : i \in DOMAIN s}

Ok(v) == [kind |-> "ok", value |-> v]

Raise(e) == [kind |-> "error", error |-> e]

NoOperator == [built |-> FALSE]

(***************************************************************************)
(* Data model: dtypes, schemas, nodes.                                     *)
(***************************************************************************)
DTypes == {"BOOLEAN", "INT32", "INT64", "FLOAT32", "FLOAT64", "STRING"}

LeafNode(features, indexes, unix, sampling) ==
    [features |-> features, indexes |-> indexes,
     is_unix_timestamp |-> unix, sampling |-> sampling, creator |-> "leaf"]

\* schema.check_compatible_features(other, check_order): TRUE when it
\* does not raise.
check_compatible_features(self, other, check_order) ==
    IF check_order
    THEN self.features = other.features
    ELSE Range(self.features) = Range(other.features)

\* create_node_new_features_new_sampling: the node is its own sampling.
create_node_new_features_new_sampling(features, indexes, unix, creator) ==
    [features |-> features, indexes |-> indexes,
     is_unix_timestamp |-> unix, sampling |-> <<"sampling of", creator>>,
     creator |-> creator]

\* Operator.__init__ of the base class: empty slots.
NewOperator(key) ==
    [built |-> TRUE, key |-> key, inputs |-> EmptyDict,
     outputs |-> EmptyDict, attributes |-> EmptyDict]

\* Operator.check(): the populated slots match the definition's slots.
check(o, definition) ==
    LET InKeys == {definition.inputs[i].key : i \in DOMAIN definition.inputs}
        ReqKeys == {definition.inputs[i].key :
                      i \in {j \in DOMAIN definition.inputs :
                               ~definition.inputs[j].is_optional}}
        OutKeys == Range(definition.outputs)
        AttrKeys == {definition.attributes[i].key :
                       i \in DOMAIN definition.attributes}
        ReqAttrs == {definition.attributes[i].key :
                       i \in {j \in DOMAIN definition.attributes :
                                ~definition.attributes[j].is_optional}}
    IN  /\ ReqKeys \subseteq DOMAIN o.inputs
        /\ DOMAIN o.inputs \subseteq InKeys
        /\ DOMAIN o.outputs = OutKeys
        /\ ReqAttrs \subseteq DOMAIN o.attributes
        /\ DOMAIN o.attributes \subseteq AttrKeys

(***************************************************************************)
(* Combine (core/operators/combine.py).                                    *)
(***************************************************************************)
MAX_NUM_ARGUMENTS == 30

\* f"input_{idx}"
InputKey(idx) == <<"input_", idx>>

\* Combine.build_op_definition
CombineOpDefinition ==
    [key |-> "COMBINE",
     inputs |-> [i \in 1..MAX_NUM_ARGUMENTS |->
                   [key |-> InputKey(i - 1), is_optional |-> (i - 1) >= 2]],
     outputs |-> <<"output">>,
     attributes |-> <<>>]

\* "if first_input is None: first_input = input"
FirstInput_last(first_input, input) == input

FirstInput(first_input, input) ==
    IF first_input = <<>> THEN input ELSE first_input

\* "all_unix_timestamp &= input.schema.is_unix_timestamp"
AllUnix_or(all_unix_timestamp, input) ==
    all_unix_timestamp \/ input.is_unix_timestamp

AllUnix(all_unix_timestamp, input) ==
    all_unix_timestamp /\ input.is_unix_timestamp

\* The loop of Combine.__init__ over inputs.items(), from item i on.
\* st = [err, o, first_input, all_unix_timestamp].
RECURSIVE CombineLoop(_, _, _)
CombineLoop(items, i, st) ==
    IF i > Len(items) THEN st
    ELSE LET key == items[i][1]
             input == items[i][2]
             first_input == FirstInput(st.first_input, input)
         IN  IF ~check_compatible_features(first_input, input, FALSE)
             THEN [st EXCEPT !.err = "SchemaMismatchError",
                             !.first_input = first_input]
             ELSE CombineLoop(items, i + 1,
                    [err |-> "",
                     o |-> [st.o EXCEPT !.inputs = Put(@, key, input)],
                     first_input |-> first_input,
                     all_unix_timestamp |->
                        AllUnix(st.all_unix_timestamp, input)])

\* Combine.__init__(self, **inputs), called with the positional arguments
\* `positional` and the keyword arguments `items` (ordered <<key, node>>).
\* Yields [ret, op]: the raised error or the constructed operator.
CombineInit(positional, items) ==
    IF Len(positional) > 0
    THEN [ret |-> Raise("TypeError"), op |-> NoOperator]
    ELSE IF Len(items) < 2
    THEN [ret |-> Raise("ArgumentCountError"), op |-> NewOperator("COMBINE")]
    ELSE IF Len(items) >= MAX_NUM_ARGUMENTS
    THEN [ret |-> Raise("ArgumentCountError"), op |-> NewOperator("COMBINE")]
    ELSE LET st == CombineLoop(items, 1,
                     [err |-> "", o |-> NewOperator("COMBINE"),
                      first_input |-> <<>>, all_unix_timestamp |-> TRUE])
         IN  IF st.err # ""
             THEN [ret |-> Raise(st.err), op |-> st.o]
             ELSE LET out == create_node_new_features_new_sampling(
                                st.first_input.features,
                                st.first_input.indexes,
                                st.all_unix_timestamp, "COMBINE")
                      o == [st.o EXCEPT !.outputs = Put(@, "output", out)]
                  IN  IF check(o, CombineOpDefinition)
                      THEN [ret |-> Ok("self"), op |-> o]
                      ELSE [ret |-> Raise("MalformedOperatorError"),
                            op |-> o]

\* combine(*inputs): the public function.
combine_no_shortcut(inputs) ==
    LET c == CombineInit(<<inputs>>, <<>>)
    IN  IF c.ret.kind = "ok"
        THEN [ret |-> Ok(c.op.outputs["output"]), op |-> c.op]
        ELSE c

combine(inputs) ==
    IF Len(inputs) = 1
    THEN [ret |-> Ok(inputs[1]), op |-> NoOperator]
    ELSE LET c == CombineInit(<<inputs>>, <<>>)
         IN  IF c.ret.kind = "ok"
             THEN [ret |-> Ok(c.op.outputs["output"]), op |-> c.op]
             ELSE c

\* Nodes given to combine.
CombineFeatureLists ==
    { << <<"a", "INT64">>, <<"b", "FLOAT64">> >>,
      << <<"b", "FLOAT64">>, <<"a", "INT64">> >>,
      << <<"a", "INT32">>, <<"b", "FLOAT64">> >>,
      << <<"a", "INT64">> >>,
      << >> }

CombineIndexes == { <<>>, << <<"k", "STRING">> >> }

CombineNodes ==
    { LeafNode(f, <<>>, u, "s1") : f \in CombineFeatureLists, u \in BOOLEAN }
    \cup { LeafNode(f, ix, TRUE, "s1") :
              f \in { << <<"a", "INT64">>, <<"b", "FLOAT64">> >>,
                      << <<"b", "FLOAT64">>, <<"a", "INT64">> >> },
              ix \in CombineIndexes }

\* The argument lists explored: n arguments, the first MaxVaried chosen
\* freely (the sequence s), the others repeating the last chosen one.
VariedArgs(n) == [1..(IF n < MaxVaried THEN n ELSE MaxVaried) -> CombineNodes]

ArgList(n, s) == [i \in 1..n |-> IF i <= Len(s) THEN s[i] ELSE s[Len(s)]]

\* Keyword arguments input_{first} .. input_{first+n-1} binding the inputs;
\* the definition's slots start at input_0.
FirstSlots == {0, 1}

KeywordItems(inputs, first) ==
    [i \in 1..Len(inputs) |-> <<InputKey(first + i - 1), inputs[i]>>]

Init ==
    /\ pc = "idle"
    /\ call = [fn |-> "none"]
    /\ op = NoOperator
    /\ ret = [kind |-> "none"]

\* combine(x_0, ..., x_{n-1})
CallCombine ==
    /\ pc = "idle"
    /\ \E n \in 0..MaxArgs : \E s \in VariedArgs(n) :
         LET inputs == ArgList(n, s)
             r == combine(inputs)
         IN  /\ call' = [fn |-> "combine", inputs |-> inputs]
             /\ op' = r.op
             /\ ret' = r.ret
    /\ pc' = "done"

\* Combine(**{input_0: x_0, ...}), as graph deserialization does.
ConstructCombine ==
    /\ pc = "idle"
    /\ \E n \in 0..MaxArgs, first \in FirstSlots : \E s \in VariedArgs(n) :
         LET inputs == ArgList(n, s)
             r == CombineInit(<<>>, KeywordItems(inputs, first))
         IN  /\ call' = [fn |-> "Combine", inputs |-> inputs,
                         first |-> first]
             /\ op' = r.op
             /\ ret' = r.ret
    /\ pc' = "done"

\* The caller drops the result and is ready for the next call.
Return ==
    /\ pc = "done"
    /\ pc' = "idle"
    /\ call' = [fn |-> "none"]
    /\ op' = NoOperator
    /\ ret' = [kind |-> "none"]

NextCombine == CallCombine \/ ConstructCombine \/ Return

SpecCombine == Init /\ [][NextCombine]_vars

(***************************************************************************)
(* Where (core/operators/where.py).                                        *)
(***************************************************************************)
\* schema.feature_dtypes() and schema.feature_names()
feature_dtypes(node) == [i \in DOMAIN node.features |-> node.features[i][2]]

feature_names(node) == [i \in DOMAIN node.features |-> node.features[i][1]]

\* node.check_same_sampling(other): TRUE when it does not raise.
check_same_sampling(self, other) == self.sampling = other.sampling

\* DType.infer_from_value(value): the dtype of a python value, "" when the
\* call raises.
infer_from_value(arg) ==
    CASE arg.pytype = "bool" -> "BOOLEAN"
      [] arg.pytype = "int" -> "INT64"
      [] arg.pytype = "float" -> "FLOAT64"
      [] arg.pytype = "str" -> "STRING"
      [] OTHER -> ""

\* create_node_new_features_existing_sampling
create_node_new_features_existing_sampling(features, sampling_node, creator) ==
    [features |-> features, indexes |-> sampling_node.indexes,
     is_unix_timestamp |-> sampling_node.is_unix_timestamp,
     sampling |-> sampling_node.sampling, creator |-> creator]

\* Where.build_op_definition
WhereOpDefinition ==
    [key |-> "WHERE",
     attributes |-> << [key |-> "on_true", is_optional |-> TRUE],
                       [key |-> "on_false", is_optional |-> TRUE] >>,
     inputs |-> << [key |-> "input", is_optional |-> FALSE],
                   [key |-> "on_true", is_optional |-> TRUE],
                   [key |-> "on_false", is_optional |-> TRUE] >>,
     outputs |-> <<"output">>]

\* "len(dtypes) != 1 or dtypes[0] != DType.BOOLEAN" does not hold.
InputIsOneBoolean_arity(dtypes) == Len(dtypes) = 1

InputIsOneBoolean(dtypes) == Len(dtypes) = 1 /\ dtypes[1] = "BOOLEAN"

\* "true_dtype != false_dtype" does not hold.
SameDType_numeric(true_dtype, false_dtype) ==
    \/ true_dtype = false_dtype
    \/ {true_dtype, false_dtype} \subseteq {"INT32", "INT64", "FLOAT32", "FLOAT64"}

SameDType(true_dtype, false_dtype) == true_dtype = false_dtype

\* Where.output_feature_name
output_feature_name_of_branch(o) ==
    IF "on_true" \in DOMAIN o.inputs
    THEN feature_names(o.inputs["on_true"])[1]
    ELSE feature_names(o.inputs["input"])[1]

output_feature_name(o) == feature_names(o.inputs["input"])[1]

\* Where._add_argument(self, arg_value, arg_name, input).
\* Yields [err, o, dtype]: err is <<>> when nothing is raised.
add_argument(o, arg_value, arg_name, input) ==
    IF arg_value.kind = "node"
    THEN IF ~check_same_sampling(input, arg_value.node)
         THEN [err |-> <<"SamplingMismatchError", arg_name>>, o |-> o,
               dtype |-> ""]
         ELSE LET dtypes == feature_dtypes(arg_value.node)
              IN  IF Len(dtypes) # 1
                  THEN [err |-> <<"FeatureCountError", arg_name>>, o |-> o,
                        dtype |-> ""]
                  ELSE [err |-> <<>>,
                        o |-> [o EXCEPT !.inputs =
                                 Put(@, arg_name, arg_value.node)],
                        dtype |-> dtypes[1]]
    ELSE LET dtype == infer_from_value(arg_value)
         IN  IF dtype = ""
             THEN [err |-> <<"DTypeInferenceError", arg_name>>, o |-> o,
                   dtype |-> ""]
             ELSE [err |-> <<>>,
                   o |-> [o EXCEPT !.attributes =
                            Put(@, arg_name, arg_value.value)],
                   dtype |-> dtype]

\* Where.__init__(self, input, on_true, on_false).
\* Yields [ret, op]: the raised error or the constructed operator.
WhereInit(input, on_true, on_false) ==
    LET o0 == NewOperator("WHERE")
    IN
    IF ~InputIsOneBoolean(feature_dtypes(input))
    THEN [ret |-> Raise(<<"DTypeConstraintError", "input">>), op |-> o0]
    ELSE
    LET o1 == [o0 EXCEPT !.inputs = Put(@, "input", input)]
        t == add_argument(o1, on_true, "on_true", input)
    IN
    IF t.err # <<>> THEN [ret |-> Raise(t.err), op |-> t.o]
    ELSE
    LET f == add_argument(t.o, on_false, "on_false", input)
    IN
    IF f.err # <<>> THEN [ret |-> Raise(f.err), op |-> f.o]
    ELSE
    IF ~SameDType(t.dtype, f.dtype)
    THEN [ret |-> Raise(<<"DTypeConstraintError", "on_true/on_false">>),
          op |-> f.o]
    ELSE
    LET out == create_node_new_features_existing_sampling(
                  << <<output_feature_name(f.o), t.dtype>> >>, input, "WHERE")
        o == [f.o EXCEPT !.outputs = Put(@, "output", out)]
    IN  IF check(o, WhereOpDefinition)
        THEN [ret |-> Ok("self"), op |-> o]
        ELSE [ret |-> Raise(<<"MalformedOperatorError", "WHERE">>), op |-> o]

\* where(input, on_true, on_false): the public function.
where(input, on_true, on_false) ==
    LET c == WhereInit(input, on_true, on_false)
    IN  IF c.ret.kind = "ok"
        THEN [ret |-> Ok(c.op.outputs["output"]), op |-> c.op]
        ELSE c

\* Nodes and values given to where.
WhereSamplings == {"s1", "s2"}

WhereInputNodes ==
    { LeafNode(f, ix, FALSE, s) :
        f \in { << <<"cond", "BOOLEAN">> >>,
                << >>,
                << <<"c1", "BOOLEAN">>, <<"c2", "BOOLEAN">> >>,
                << <<"x", "INT64">> >> },
        ix \in CombineIndexes,
        s \in WhereSamplings }

NodeArg(node) == [kind |-> "node", node |-> node]

ScalarArg(pytype, value) == [kind |-> "scalar", pytype |-> pytype, value |-> value]

WhereBranchArgs ==
    { NodeArg(LeafNode(f, <<>>, FALSE, s)) :
        f \in { << <<"v", "INT64">> >>,
                << <<"v", "INT32">> >>,
                << <<"w", "FLOAT64">> >>,
                << <<"v", "INT64">>, <<"w", "FLOAT64">> >>,
                << >> },
        s \in WhereSamplings }
    \cup { ScalarArg("int", "1"), ScalarArg("float", "1.5"),
           ScalarArg("str", "'a'"), ScalarArg("bool", "True"),
           ScalarArg("NoneType", "None") }

\* where(input, on_true, on_false)
CallWhere ==
    /\ pc = "idle"
    /\ \E input \in WhereInputNodes, on_true \in WhereBranchArgs,
          on_false \in WhereBranchArgs :
         LET r == where(input, on_true, on_false)
         IN  /\ call' = [fn |-> "where", input |-> input,
                         on_true |-> on_true, on_false |-> on_false]
             /\ op' = r.op
             /\ ret' = r.ret
    /\ pc' = "done"

(***************************************************************************)
(* Where executor (implementation/numpy/operators/where.py).               *)
(***************************************************************************)
\* Most events of one index key, and the largest timestamp.
MaxEvents == 2
MaxTime == 2

\* OperatorImplementation.output_schema(key): the schema of the operator's
\* output node.
output_schema(o, key) ==
    [features |-> o.outputs[key].features,
     indexes |-> o.outputs[key].indexes,
     is_unix_timestamp |-> o.outputs[key].is_unix_timestamp]

\* IndexData(features, timestamps, schema)
IndexData(features, timestamps, schema) ==
    [features |-> features, timestamps |-> timestamps]

\* EventSet(data, schema)
EventSet(data, schema) == [data |-> data, schema |-> schema]

\* EventSet.set_index_value(index_key, value)
set_index_value(evset, index_key, value) ==
    [evset EXCEPT !.data = Put(@, index_key, value)]

\* The loop of WhereNumpyImplementation.__call__ over input.data.items(),
\* over the index keys `keys` not yet visited.
RECURSIVE WhereFill(_, _, _, _)
WhereFill(output_evset, input, keys, schema) ==
    IF keys = {} THEN output_evset
    ELSE LET index_key == CHOOSE k \in keys : TRUE
         IN  WhereFill(
                set_index_value(output_evset, index_key,
                                IndexData(<<>>, <<1>>, schema)),
                input, keys \ {index_key}, schema)

\* WhereNumpyImplementation.__call__(self, input)
WhereNumpyCall(o, input) ==
    LET schema == output_schema(o, "output")
        output_evset == EventSet(EmptyDict, schema)
    IN  Ok([output |-> WhereFill(output_evset, input, DOMAIN input.data,
                                 schema)])

\* Operators the executor is built for: valid Where operators.
WhereExecInputNode ==
    LeafNode(<< <<"cond", "BOOLEAN">> >>, << <<"k", "STRING">> >>, FALSE, "s1")

WhereExecOperators ==
    { WhereInit(WhereExecInputNode, a, a).op :
        a \in { ScalarArg("int", "1"), ScalarArg("float", "1.5") } }

\* Datasets given to the executor: per index key, non-decreasing timestamps
\* and one boolean array of the same length.
WhereIndexKeys == {"k1", "k2"}

Timestamps ==
    UNION { { t \in [1..n -> 1..MaxTime] :
                \A i \in 1..n : i < n => t[i] <= t[i + 1] } : n \in 0..MaxEvents }

WhereIndexDatas ==
    UNION { { IndexData(<<b>>, t, <<>>) : b \in [DOMAIN t -> BOOLEAN] } :
              t \in Timestamps }

WhereExecInputs ==
    UNION { { EventSet(d, [features |-> WhereExecInputNode.features,
                           indexes |-> WhereExecInputNode.indexes,
                           is_unix_timestamp |-> FALSE]) :
                d \in [ks -> WhereIndexDatas] } : ks \in SUBSET WhereIndexKeys }

\* WhereNumpyImplementation(operator)(input)
CallWhereNumpy ==
    /\ pc = "idle"
    /\ \E o \in WhereExecOperators, input \in WhereExecInputs :
         /\ call' = [fn |-> "WhereNumpyImplementation", input |-> input]
         /\ op' = o
         /\ ret' = WhereNumpyCall(o, input)
    /\ pc' = "done"

NextWhere == CallWhere \/ CallWhereNumpy \/ Return

SpecWhere == Init /\ [][NextWhere]_vars

(***************************************************************************)
(* Cast executor (implementation/numpy/operators/cast.py).                 *)
(* A number is 0 or +-2^exp: [form |-> "num", sgn, exp].  A string is the  *)
(* text of such a number as printed for the dtype it was formatted from.   *)
(***************************************************************************)
Num(sgn, exp) == [form |-> "num", sgn |-> sgn, exp |-> exp]

Text(of, sgn, exp) == [form |-> of, sgn |-> sgn, exp |-> exp]

\* self._dtype_limits: max of a dtype is the largest value below
\* 2^LimitExp; min is -2^LimitExp for integers and -max for floats.
LimitExp(dtype) ==
    CASE dtype = "INT32" -> 31
      [] dtype = "INT64" -> 63
      [] dtype = "FLOAT32" -> 128
      [] dtype = "FLOAT64" -> 1024

IsInteger(dtype) == dtype \in {"INT32", "INT64"}

\* value is greater than the max of dtype.
AboveMax(value, dtype) == value.sgn = 1 /\ value.exp >= LimitExp(dtype)

\* value is less than the min of dtype.
BelowMin(value, dtype) ==
    /\ value.sgn = -1
    /\ IF IsInteger(dtype) THEN value.exp > LimitExp(dtype)
       ELSE value.exp >= LimitExp(dtype)

\* self._nocheck_dtypes
nocheck_dtypes == {"BOOLEAN", "STRING"}

\* CastNumpyImplementation._can_overflow
can_overflow_any(origin_dtype, dst_dtype) ==
    IF origin_dtype \in nocheck_dtypes \/ dst_dtype \in nocheck_dtypes
    THEN FALSE
    ELSE TRUE

can_overflow(origin_dtype, dst_dtype) ==
    IF origin_dtype \in nocheck_dtypes \/ dst_dtype \in nocheck_dtypes
    THEN FALSE
    ELSE LimitExp(origin_dtype) > LimitExp(dst_dtype)

\* np.iinfo(dst).max is an integer; compared with a floating array it is
\* converted to the array's dtype and rounds up to 2^LimitExp when the
\* mantissa cannot hold it (float32: 24 bits, float64: 53 bits).
MaxRoundsUp(origin_dtype, dst_dtype) ==
    /\ IsInteger(dst_dtype)
    /\ \/ origin_dtype = "FLOAT32"
       \/ origin_dtype = "FLOAT64" /\ dst_dtype = "INT64"

\* One element of "data > self._dtype_limits[dst_dtype].max"
data_gt_max(value, origin_dtype, dst_dtype) ==
    /\ value.sgn = 1
    /\ IF MaxRoundsUp(origin_dtype, dst_dtype)
       THEN value.exp > LimitExp(dst_dtype)
       ELSE value.exp >= LimitExp(dst_dtype)

\* One element of "data < self._dtype_limits[dst_dtype].min"; the minimum is
\* a power of two or -max of a float and converts exactly.
data_lt_min(value, origin_dtype, dst_dtype) == BelowMin(value, dst_dtype)

\* CastNumpyImplementation._check_overflow: TRUE when it raises.
check_overflow_raises(data, origin_dtype, dst_dtype) ==
    /\ can_overflow(origin_dtype, dst_dtype)
    /\ \E i \in DOMAIN data :
         \/ data_lt_min(data[i], origin_dtype, dst_dtype)
         \/ data_gt_max(data[i], origin_dtype, dst_dtype)

\* The number a value stands for (a string is parsed).
Parsed(value) == Num(value.sgn, value.exp)

\* One element of data.astype(DTYPE_REVERSE_MAPPING[dst_dtype]); `impl` is
\* the platform's result of a float to integer conversion out of range: 0
\* or the minimum of the destination.
astype(value, origin_dtype, dst_dtype, impl) ==
    LET v == Parsed(value)
        Kind == CASE origin_dtype = "BOOLEAN" -> "text bool"
                  [] IsInteger(origin_dtype) -> "text int"
                  [] origin_dtype = "STRING" -> value.form
                  [] OTHER -> "text float"
    IN
    CASE dst_dtype = "STRING" -> Text(Kind, v.sgn, v.exp)
      [] dst_dtype = "BOOLEAN" -> IF v.sgn = 0 THEN Num(0, 0) ELSE Num(1, 0)
      [] dst_dtype \in {"FLOAT32", "FLOAT64"} ->
           IF AboveMax(v, dst_dtype) \/ BelowMin(v, dst_dtype)
           THEN Num(v.sgn, LimitExp("FLOAT64"))
           ELSE v
      [] IsInteger(dst_dtype) ->
           IF ~(AboveMax(v, dst_dtype) \/ BelowMin(v, dst_dtype)) THEN v
           ELSE IF ~IsInteger(origin_dtype)
                THEN IF impl = "min" THEN Num(-1, LimitExp(dst_dtype))
                     ELSE Num(0, 0)
           ELSE IF v.exp = LimitExp(dst_dtype)
                THEN Num(-1, LimitExp(dst_dtype))
                ELSE Num(0, 0)

\* NumpyFeature(name, data); its dtype is the dtype of the array.
NumpyFeature(id, name, dtype, data) ==
    [id |-> id, name |-> name, dtype |-> dtype, data |-> data]

\* NumpyEvent(data, sampling): data is the ordered dict index -> features.
NumpyEvent(id, data, sampling) ==
    [id |-> id, data |-> data, sampling |-> sampling]

\* NumpyEvent.dtypes: feature name -> dtype, from the first index value.
event_dtypes(event) ==
    IF Len(event.data) = 0 THEN EmptyDict
    ELSE LET features == event.data[1][2]
         IN  [n \in {features[j].name : j \in DOMAIN features} |->
                (CHOOSE f \in Range(features) : f.name = n).dtype]

\* "if feature.dtype == dst_dtype": the feature is reused.
ReuseFeature_never(feature, dst_dtype) == FALSE

ReuseFeature(feature, dst_dtype) == feature.dtype = dst_dtype

\* "all(orig_dtype is target_dtypes[feature_name] ...)": the event is reused.
ReuseEvent_never(event, target_dtypes) == FALSE

ReuseEvent(event, target_dtypes) ==
    \A feature_name \in DOMAIN event_dtypes(event) :
        event_dtypes(event)[feature_name] = target_dtypes[feature_name]

\* "name=feature.name,  # Note: not renaming feature"
NewFeatureName_renamed(feature, dst_dtype) == <<feature.name, dst_dtype>>

NewFeatureName(feature, dst_dtype) == feature.name

\* The input event after "feature.data.astype(...)" of feature j of the index
\* value event_index: astype returns a new array.
input_after_astype_inplace(event, event_index, j, data) ==
    [event EXCEPT !.data =
       [i \in DOMAIN @ |->
          IF @[i][1] = event_index
          THEN <<@[i][1], [@[i][2] EXCEPT ![j].data = data]>>
          ELSE @[i]]]

input_after_astype(event, event_index, j, data) == event

\* The inner loop of __call__ over the features of one index value, from
\* feature j on.  st = [err, out, event]: out is output.data[event_index],
\* event is the input event as the loop leaves it.
RECURSIVE CastFeatures(_, _, _, _, _, _, _)
CastFeatures(event_index, features, j, target_dtypes, check_overflow, impl, st) ==
    IF j > Len(features) THEN st
    ELSE
    LET feature == features[j]
        dst_dtype == target_dtypes[feature.name]
    IN
    IF ReuseFeature(feature, dst_dtype)
    THEN CastFeatures(event_index, features, j + 1, target_dtypes,
                      check_overflow, impl,
                      [st EXCEPT !.out = Append(@, feature)])
    ELSE IF check_overflow
            /\ check_overflow_raises(feature.data, feature.dtype, dst_dtype)
    THEN [st EXCEPT !.err = "OverflowError"]
    ELSE
    LET data == [i \in DOMAIN feature.data |->
                   astype(feature.data[i], feature.dtype, dst_dtype, impl)]
    IN  CastFeatures(event_index, features, j + 1, target_dtypes,
            check_overflow, impl,
            [st EXCEPT
               !.out = Append(@,
                  NumpyFeature(<<"new", event_index, feature.name>>,
                     NewFeatureName(feature, dst_dtype), dst_dtype, data)),
               !.event = input_after_astype(@, event_index, j, data)])

\* The outer loop of __call__ over event.data.items(), from item i on.
\* st = [err, output, event].
RECURSIVE CastIndexes(_, _, _, _, _, _)
CastIndexes(event, i, target_dtypes, check_overflow, impl, st) ==
    IF i > Len(event.data) THEN st
    ELSE
    LET event_index == event.data[i][1]
        f == CastFeatures(event_index, event.data[i][2], 1, target_dtypes,
                          check_overflow, impl,
                          [err |-> "", out |-> <<>>, event |-> st.event])
        output == [st.output EXCEPT !.data = Append(@, <<event_index, f.out>>)]
    IN  IF f.err # ""
        THEN [err |-> f.err, output |-> output, event |-> f.event]
        ELSE CastIndexes(event, i + 1, target_dtypes, check_overflow, impl,
                         [err |-> "", output |-> output, event |-> f.event])

\* CastNumpyImplementation.__call__(self, event).
\* Yields [ret, event]: what is returned or raised, and the input event as
\* the call leaves it.
CastNumpyCall(o, event, impl) ==
    LET target_dtypes == o.attributes["target_dtypes"]
        check_overflow == o.attributes["check_overflow"]
    IN
    IF ReuseEvent(event, target_dtypes)
    THEN [ret |-> Ok([event |-> event]), event |-> event]
    ELSE
    LET st == CastIndexes(event, 1, target_dtypes, check_overflow, impl,
                 [err |-> "",
                  output |-> NumpyEvent("output", <<>>, event.sampling),
                  event |-> event])
    IN  IF st.err # "" THEN [ret |-> Raise(st.err), event |-> st.event]
        ELSE [ret |-> Ok([event |-> st.output]), event |-> st.event]

\* Events given to the executor.
CastFeatureNames == <<"f", "g">>

CastIndexKeys == <<"k1", "k2">>

\* The events of every index value are [small, x]: x is small too, except
\* in at most one array of the event, where it is a large value.
SmallData(dtype) ==
    CASE dtype = "STRING" -> << Text("text int", 1, 0), Text("text int", 1, 0) >>
      [] OTHER -> << Num(0, 0), Num(1, 0) >>

LargeExps == {31, 32, 40, 63, 64, 128}

ValuesOf(dtype) ==
    IF dtype \in nocheck_dtypes THEN {}
    ELSE { v \in { Num(sg, e) : sg \in {-1, 1}, e \in LargeExps } :
             ~AboveMax(v, dtype) /\ ~BelowMin(v, dtype) }

LargeData(dtype) == { << Num(0, 0), v >> : v \in ValuesOf(dtype) }

\* event with nk index values of the features of dtypes `dtypes`; `hot` is
\* <<>> or <<index, feature, array>>.
CastEvent(nk, dtypes, hot) ==
    NumpyEvent("event",
       [i \in 1..nk |->
          << CastIndexKeys[i],
             [j \in DOMAIN dtypes |->
                NumpyFeature(<<CastIndexKeys[i], CastFeatureNames[j]>>,
                   CastFeatureNames[j], dtypes[j],
                   IF hot # <<>> /\ hot[1] = i /\ hot[2] = j THEN hot[3]
                   ELSE SmallData(dtypes[j]))] >>],
       "s1")

CastEvents ==
    UNION { UNION { { CastEvent(nk, dtypes, <<>>) } \cup
                    UNION { { CastEvent(nk, dtypes, <<i, j, a>>) :
                                i \in 1..nk, a \in LargeData(dtypes[j]) } :
                            j \in DOMAIN dtypes } :
                    dtypes \in [DOMAIN CastFeatureNames -> DTypes] } :
            nk \in 0..Len(CastIndexKeys) }

\* Platform results of a float to integer conversion out of range.
ImplChoices == { "zero", "min" }

CastOperator(target_dtypes, check_overflow) ==
    [built |-> TRUE, key |-> "CAST", inputs |-> EmptyDict,
     outputs |-> EmptyDict,
     attributes |-> [target_dtypes |-> target_dtypes,
                     check_overflow |-> check_overflow]]

\* CastNumpyImplementation(operator)(event)
CallCastNumpy ==
    /\ pc = "idle"
    /\ \E event \in CastEvents,
          target \in [DOMAIN CastFeatureNames -> DTypes],
          check_overflow \in BOOLEAN, impl \in ImplChoices :
         LET o == CastOperator(
                     [n \in Range(CastFeatureNames) |->
                        target[CHOOSE j \in DOMAIN CastFeatureNames :
                                 CastFeatureNames[j] = n]],
                     check_overflow)
             r == CastNumpyCall(o, event, impl)
         IN  /\ call' = [fn |-> "CastNumpyImplementation", event |-> event,
                         event_after |-> r.event]
             /\ op' = o
             /\ ret' = r.ret
    /\ pc' = "done"

NextCast == CallCastNumpy \/ Return

SpecCast == Init /\ [][NextCast]_vars

(***************************************************************************)
(* All the operations together.                                            *)
(***************************************************************************)
Next ==
    \/ CallCombine
    \/ ConstructCombine
    \/ CallWhere
    \/ CallWhereNumpy
    \/ CallCastNumpy
    \/ Return

Spec == Init /\ [][Next]_vars

(***************************************************************************)
(* Properties of combine and Combine.                                      *)
(***************************************************************************)
NumInputs == Len(call.inputs)

SameFeatureSets ==
    \A i \in 1..NumInputs :
        Range(call.inputs[i].features) = Range(call.inputs[1].features)

CombineCalled == pc = "done" /\ call.fn = "combine"

CombineConstructed == pc = "done" /\ call.fn = "Combine"

InArity == NumInputs >= 2 /\ NumInputs < MAX_NUM_ARGUMENTS

\* C1: combine(x_0, ..., x_{n-1}) with 2 <= n < 30 inputs of one feature
\* set constructs a Combine operator whose populated input slots are exactly
\* input_0 .. input_{n-1} with x_i bound to input_i, whose check() passes,
\* and returns that operator's "output" node.
C1_CombineBuildsOperator ==
    (CombineCalled /\ InArity /\ SameFeatureSets) =>
        /\ ret.kind = "ok"
        /\ op.built
        /\ DOMAIN op.inputs = {InputKey(i - 1) : i \in 1..NumInputs}
        /\ \A i \in 1..NumInputs : op.inputs[InputKey(i - 1)] = call.inputs[i]
        /\ check(op, CombineOpDefinition)
        /\ ret.value = op.outputs["output"]

\* C2: combine with 1 argument or with 30 or more arguments fails with an
\* argument-count error, and with n in [2, 30) arguments it never fails with
\* an argument-count error.
C2_ArgumentCountError ==
    CombineCalled =>
        /\ (NumInputs = 1 \/ NumInputs >= MAX_NUM_ARGUMENTS) =>
              (ret.kind = "error" /\ ret.error = "ArgumentCountError")
        /\ InArity =>
              ~(ret.kind = "error" /\ ret.error = "ArgumentCountError")

\* C3: combine(x) with a single argument returns x itself: no Combine
\* operator is constructed, no error is raised, and the returned value is
\* the argument.
C3_SingleArgumentIdentity ==
    (CombineCalled /\ NumInputs = 1) =>
        /\ ret.kind = "ok"
        /\ ret.value = call.inputs[1]
        /\ ~op.built

C3_Witness ==
    /\ CombineCalled /\ NumInputs = 1
    /\ ret.kind = "ok"
    /\ ~call.inputs[1].is_unix_timestamp
    /\ Len(call.inputs[1].features) = 2

C5_AllUnixTimestamp ==
    (CombineConstructed /\ ret.kind = "ok") =>
        (op.outputs["output"].is_unix_timestamp <=>
            \A i \in 1..NumInputs : call.inputs[i].is_unix_timestamp)

C5_Witness ==
    /\ CombineConstructed /\ ret.kind = "ok"
    /\ NumInputs > MaxVaried
    /\ call.inputs[1].is_unix_timestamp
    /\ ~call.inputs[NumInputs].is_unix_timestamp
    /\ ~op.outputs["output"].is_unix_timestamp

(***************************************************************************)
(* Properties of where and Where.                                          *)
(***************************************************************************)
WhereCalled == pc = "done" /\ call.fn = "where"

ValidWhereInput ==
    /\ Len(call.input.features) = 1
    /\ call.input.features[1][2] = "BOOLEAN"

\* The per-branch condition of a branch argument.
BranchOk(arg) ==
    IF arg.kind = "node"
    THEN /\ arg.node.sampling = call.input.sampling
         /\ Len(arg.node.features) = 1
    ELSE arg.pytype \in {"bool", "int", "float", "str"}

BranchDType(arg) ==
    IF arg.kind = "node" THEN arg.node.features[1][2]
    ELSE CASE arg.pytype = "bool" -> "BOOLEAN"
           [] arg.pytype = "int" -> "INT64"
           [] arg.pytype = "float" -> "FLOAT64"
           [] arg.pytype = "str" -> "STRING"

BranchRecorded(arg, name) ==
    IF arg.kind = "node"
    THEN /\ name \in DOMAIN op.inputs
         /\ op.inputs[name] = arg.node
         /\ name \notin DOMAIN op.attributes
    ELSE /\ name \in DOMAIN op.attributes
         /\ op.attributes[name] = arg.value
         /\ name \notin DOMAIN op.inputs

\* C6: constructing Where fails with the dtype/arity error of the input
\* whenever input does not have exactly one BOOLEAN feature, and it fails
\* before on_true and on_false are examined: nothing is recorded for them.
C6_InputOneBoolean ==
    (WhereCalled /\ ~ValidWhereInput) =>
        /\ ret.kind = "error"
        /\ ret.error = <<"DTypeConstraintError", "input">>
        /\ DOMAIN op.inputs = {}
        /\ DOMAIN op.attributes = {}
        /\ DOMAIN op.outputs = {}

C6_Witness ==
    /\ WhereCalled /\ ret.kind = "error"
    /\ Len(call.input.features) = 1
    /\ call.input.features[1][2] # "BOOLEAN"
    /\ ~BranchOk(call.on_true)
    /\ BranchOk(call.on_false)

\* C7: with a valid input, construction succeeds iff each branch is a Node
\* of input's sampling with exactly one feature or a scalar whose dtype can
\* be inferred, and the two branch dtypes are equal, without coercion; a
\* Node branch is recorded only as an input, a scalar only as an attribute.
C7_BranchesSameDType ==
    (WhereCalled /\ ValidWhereInput) =>
        /\ (ret.kind = "ok") <=>
              /\ BranchOk(call.on_true)
              /\ BranchOk(call.on_false)
              /\ BranchDType(call.on_true) = BranchDType(call.on_false)
        /\ ret.kind = "ok" =>
              /\ BranchRecorded(call.on_true, "on_true")
              /\ BranchRecorded(call.on_false, "on_false")
              /\ op.inputs["input"] = call.input

C7_Witness ==
    /\ WhereCalled /\ ValidWhereInput
    /\ ret.kind = "ok"
    /\ call.on_true.kind = "node"
    /\ call.on_false.kind = "scalar"

\* C8: a constructed Where has exactly one output node, "output", with one
\* feature named as input's single feature, of the common dtype of on_true
\* and on_false, and of the same sampling as input.
C8_OneOutputFeature ==
    (WhereCalled /\ ret.kind = "ok") =>
        /\ DOMAIN op.outputs = {"output"}
        /\ ret.value = op.outputs["output"]
        /\ Len(ret.value.features) = 1
        /\ ret.value.features[1][1] = call.input.features[1][1]
        /\ ret.value.features[1][2] = BranchDType(call.on_true)
        /\ ret.value.features[1][2] = BranchDType(call.on_false)
        /\ ret.value.sampling = call.input.sampling

C8_Witness ==
    /\ WhereCalled /\ ret.kind = "ok"
    /\ call.on_true.kind = "node"
    /\ call.input.sampling = "s2"
    /\ ret.value.features = << <<"cond", "FLOAT64">> >>

WhereNumpyCalled == pc = "done" /\ call.fn = "WhereNumpyImplementation"

\* C9: the dataset returned by the Where executor has exactly the input's
\* index keys, and for each index key the input's timestamps and exactly one
\* feature array, one per feature of the output schema, as long as the
\* timestamps.
C9_WhereOutputRealizesSchema ==
    WhereNumpyCalled =>
        /\ ret.kind = "ok"
        /\ DOMAIN ret.value.output.data = DOMAIN call.input.data
        /\ \A k \in DOMAIN call.input.data :
             LET d == ret.value.output.data[k]
             IN  /\ d.timestamps = call.input.data[k].timestamps
                 /\ Len(d.features) = 1
                 /\ Len(d.features) = Len(ret.value.output.schema.features)
                 /\ \A j \in DOMAIN d.features :
                      Len(d.features[j]) = Len(d.timestamps)

(***************************************************************************)
(* Properties of the Cast executor.                                        *)
(***************************************************************************)
CastCalled == pc = "done" /\ call.fn = "CastNumpyImplementation"

TargetDType(feature) == op.attributes["target_dtypes"][feature.name]

InputFeatures ==
    UNION { Range(call.event.data[i][2]) : i \in DOMAIN call.event.data }

\* C10: every feature whose dtype equals its target dtype is in the output
\* as the very same feature object, every other feature is replaced by a
\* new feature of the same name and the target dtype; feature order, index
\* keys and sampling are preserved; if no feature changes dtype the returned
\* dataset is the input object itself.
C10_CastReusesFeatures ==
    (CastCalled /\ ret.kind = "ok") =>
        LET in == call.event
            out == ret.value.event
        IN  /\ out.sampling = in.sampling
            /\ Len(out.data) = Len(in.data)
            /\ \A i \in DOMAIN in.data :
                 /\ out.data[i][1] = in.data[i][1]
                 /\ Len(out.data[i][2]) = Len(in.data[i][2])
                 /\ \A j \in DOMAIN in.data[i][2] :
                      LET fin == in.data[i][2][j]
                          fout == out.data[i][2][j]
                      IN  IF fin.dtype = TargetDType(fin)
                          THEN fout = fin
                          ELSE /\ fout.id # fin.id
                               /\ fout.name = fin.name
                               /\ fout.dtype = TargetDType(fin)
            /\ (\A f \in InputFeatures : f.dtype = TargetDType(f)) => out = in

C10_Witness ==
    /\ CastCalled /\ ret.kind = "ok"
    /\ Len(call.event.data) = 2
    /\ ret.value.event.id = "output"
    /\ \E f \in InputFeatures : f.dtype = TargetDType(f)
    /\ \E f \in InputFeatures :
         f.dtype = "INT64" /\ TargetDType(f) = "INT32"

\* A feature whose cast loses range: it changes dtype between two numeric
\* dtypes, the destination's maximum is smaller than the source's, and one
\* of its values is outside the destination's range.
NumericDTypes == {"INT32", "INT64", "FLOAT32", "FLOAT64"}

OutOfRange(feature) ==
    /\ feature.dtype # TargetDType(feature)
    /\ feature.dtype \in NumericDTypes
    /\ TargetDType(feature) \in NumericDTypes
    /\ LimitExp(TargetDType(feature)) < LimitExp(feature.dtype)
    /\ \E i \in DOMAIN feature.data :
         \/ BelowMin(feature.data[i], TargetDType(feature))
         \/ AboveMax(feature.data[i], TargetDType(feature))

OverflowRaised == ret.kind = "error" /\ ret.error = "OverflowError"

\* C11: with overflow checking enabled the Cast executor fails with an
\* overflow error exactly when some feature that changes dtype between two
\* numeric dtypes, the destination's maximum being smaller than the
\* source's, holds a value below the destination's minimum or above its
\* maximum; casts from or to BOOLEAN or STRING and casts to a dtype whose
\* maximum is not smaller are never checked; with overflow checking disabled
\* it never fails with an overflow error.
C11_OverflowExactly ==
    CastCalled =>
        (OverflowRaised <=>
            /\ op.attributes["check_overflow"]
            /\ \E f \in InputFeatures : OutOfRange(f))

(***************************************************************************)
(* Properties of failed operations.                                        *)
(***************************************************************************)
Failed == pc = "done" /\ ret.kind = "error"

NoOutputNode == ~op.built \/ DOMAIN op.outputs = {}

CastLeavesInput ==
    (CastCalled /\ OverflowRaised) =>
        /\ "value" \notin DOMAIN ret
        /\ call.event_after = call.event

\* C12 (as claimed): a failed operation exposes no partial result: on every
\* failing path of Combine and of Where construction the error is raised
\* before any output node is created, and a Cast executor that fails with an
\* overflow error returns no dataset and leaves the input dataset unchanged.
C12_NoPartialResult ==
    /\ (Failed /\ (CombineCalled \/ CombineConstructed \/ WhereCalled)) =>
          NoOutputNode
    /\ CastLeavesInput

\* C12 (amended): as claimed, except for the failure of the final check():
\* it is raised after add_output has created the output node, and the
\* operator that holds the node is not returned.
C12_NoPartialResultBeforeCheck ==
    /\ (Failed /\ (CombineCalled \/ CombineConstructed)) =>
          IF ret.error = "MalformedOperatorError"
          THEN DOMAIN op.outputs = {"output"} /\ "value" \notin DOMAIN ret
          ELSE NoOutputNode
    /\ (Failed /\ WhereCalled) => NoOutputNode
    /\ CastLeavesInput

\* An overflow raised at the second feature of the second index value, after
\* three features had been converted.
C12_Witness ==
    /\ CastCalled /\ OverflowRaised
    /\ Len(call.event.data) = 2
    /\ \A i \in {1, 2} : \A j \in {1, 2} :
         LET f == call.event.data[i][2][j]
         IN  /\ f.dtype # TargetDType(f)
             /\ OutOfRange(f) <=> (i = 2 /\ j = 2)
    /\ call.event_after = call.event

====
